---- MODULE Spec2Model ----
(***************************************************************************)
(* Model of the token-contract call-forest traversal:                      *)
(*   src/src/lib/mina/token/call-forest.ts    (CallForest, iterator)       *)
(*   src/src/lib/mina/token/token-contract.ts (forEachUpdate,              *)
(*                                             checkZeroBalanceChange)     *)
(* One behaviour is one call of checkZeroBalanceChange(updates) on a token *)
(* contract; one step of the loop of forEachUpdate is one action.          *)
(***************************************************************************)
EXTENDS Integers, Sequences, FiniteSets, TLC

\* ------------------------------------------------------------------ bounds

\* Largest number of records in the exhaustively enumerated forests.
MaxNodes == 3

\* Largest magnitude of a balance change in the two-record forests.
MaxAmount == 2

\* token-contract.ts:17
MAX_ACCOUNT_UPDATES == 20

\* ------------------------------------------------- account updates, tokens

\* AccountUpdate.MayUseToken: the three permission tags.
No == "No"
ParentsOwnToken == "ParentsOwnToken"
InheritFromParent == "InheritFromParent"

\* Public keys: the token contract's own address, another account, and
\* PublicKey.empty() (carried by the dummy account update).
ZkappAddress == "zkapp"
UserAddress == "user"
EmptyKey == "empty"

\* Token ids are modelled symbolically: the default token is the empty
\* sequence, and a derived id is the deriving key prepended to the parent id
\* (an injective hash without fixed points).
DefaultTokenId == <<>>
TokenIdDerive(publicKey, tokenId) == <<publicKey>> \o tokenId

\* this.token.id of the contract: its address under the default token.
ContractTokenId == TokenIdDerive(ZkappAddress, DefaultTokenId)

\* AccountUpdate.dummy(): the filler a cursor reveals once it is exhausted.
\* id 0 is the identity of no real account update.
DummyUpdate ==
  [id |-> 0, publicKey |-> EmptyKey, tokenId |-> DefaultTokenId,
   mayUseToken |-> No, balanceChange |-> 0]

\* Int64.add on the small amounts of the model.
Int64Add(x, y) == x + y

\* ---------------------------------------------------------- call forests

\* The hashed value of an account update: its own fields, not its children.
HashedAccountUpdate(update) ==
  [id |-> update.id, publicKey |-> update.publicKey,
   tokenId |-> update.tokenId, mayUseToken |-> update.mayUseToken,
   balanceChange |-> update.balanceChange]

\* CallForest.fromAccountUpdates: a list of account updates (each with its
\* children) to the list of call trees {accountUpdate, calls}.
RECURSIVE fromAccountUpdates(_)
fromAccountUpdates(updates) ==
  IF updates = <<>> THEN <<>>
  ELSE <<[accountUpdate |-> HashedAccountUpdate(Head(updates)),
          calls |-> fromAccountUpdates(Head(updates).children)]>>
       \o fromAccountUpdates(Tail(updates))

\* Poseidon.hashWithPrefix, symbolically: the prefix and the hashed input
\* (a collision-free hash). emptyHash is the hash of the empty list.
hashWithPrefix(prefix, input) == [domain |-> prefix, input |-> input]
emptyHash == [domain |-> "empty", input |-> <<>>]

\* hashAccountUpdate: the hash of the body of an account update; neither its
\* id nor its children are part of it.
hashAccountUpdate(update) ==
  hashWithPrefix("body",
    <<[publicKey |-> update.publicKey, tokenId |-> update.tokenId,
       mayUseToken |-> update.mayUseToken,
       balanceChange |-> update.balanceChange]>>)

\* Mutant of hashNode: the hash of the children is left out.
hashNodeWithoutCalls(tree) ==
  hashWithPrefix("accountUpdateNode", <<tree.accountUpdate.hash>>)

\* hashNode, hashCons and merkleListHash on trees
\* {accountUpdate: {hash, value}, calls: {hash, data}}.
hashNode(tree) ==
  hashWithPrefix("accountUpdateNode", <<tree.accountUpdate.hash, tree.calls.hash>>)
hashCons(forestHash, nodeHash) ==
  hashWithPrefix("accountUpdateCons", <<nodeHash, forestHash>>)
merkleListHash(forestHash, tree) == hashCons(forestHash, hashNode(tree))

\* withHashes(nodes, merkleListHash).hash: the hash chain of a list, the
\* first element outermost.
RECURSIVE withHashes(_)
withHashes(nodes) ==
  IF nodes = <<>> THEN emptyHash
  ELSE merkleListHash(withHashes(Tail(nodes)), Head(nodes))

\* CallForest.from(nodes)
CallForestFrom(nodes) == [hash |-> withHashes(nodes), data |-> nodes]

\* The CallForest {hash, data} of a list of call trees: every account update
\* with its hash, every list of calls with its hash.
RECURSIVE CallForestOf(_)
CallForestOf(forest) ==
  CallForestFrom(
    [k \in 1..Len(forest) |->
       [accountUpdate |-> [hash |-> hashAccountUpdate(forest[k].accountUpdate),
                           value |-> forest[k].accountUpdate],
        calls |-> CallForestOf(forest[k].calls)]])

\* ------------------------------------------- MerkleArray / MerkleList

\* A cursor over a forest is the part of the list still to be read (what its
\* current hash commits to).
startIterating(list) == list

isAtEnd(cursor) == cursor = <<>>

\* The element revealed by next() on a cursor: the head, or the dummy tree.
DummyTree == [accountUpdate |-> DummyUpdate, calls |-> <<>>]
cursorElement(cursor) == IF isAtEnd(cursor) THEN DummyTree ELSE Head(cursor)
cursorAfterNext(cursor) == IF isAtEnd(cursor) THEN cursor ELSE Tail(cursor)

jumpToEndIf(cursor, condition) == IF condition THEN <<>> ELSE cursor

\* The stack of parent layers: push appends, pop removes the last element and
\* yields the empty (dummy) layer on an empty list.
pushIf(list, condition, element) ==
  IF condition THEN Append(list, element) ELSE list

DummyLayer == [forest |-> <<>>, mayUseToken |-> No]
popElement(list) == IF list = <<>> THEN DummyLayer ELSE list[Len(list)]
popRest(list) == IF list = <<>> THEN list ELSE SubSeq(list, 1, Len(list) - 1)

\* ------------------------------------------------- CallForestIterator

\* Mutant of create: the root layer grants InheritFromParent.
createInheritFromParent(forest, selfToken) ==
  [currentLayer |-> [forest |-> startIterating(forest),
                     mayUseToken |-> InheritFromParent],
   unfinishedParentLayers |-> <<>>,
   selfToken |-> selfToken]

\* CallForestIterator.create
create(forest, selfToken) ==
  [currentLayer |-> [forest |-> startIterating(forest),
                     mayUseToken |-> ParentsOwnToken],
   unfinishedParentLayers |-> <<>>,
   selfToken |-> selfToken]

\* Mutant of canAccessThisToken: the tag is not compared.
canAccessAnyTag(update, layer) == TRUE

\* Mutant of isSelf: the token id is compared, not the derived token id.
isSelfByTokenId(update, selfToken) == update.tokenId = selfToken

\* Mutant of usesThisToken: every account update is taken to use the token.
usesAnyToken(update, selfToken) == TRUE

\* Mutant of usesThisToken: the tag of the account update counts as well.
usesThisTokenIfInherits(update, selfToken) ==
  update.tokenId = selfToken /\ update.mayUseToken = InheritFromParent

\* Mutant of usesThisToken: the comparison is negated.
usesOtherToken(update, selfToken) == update.tokenId # selfToken

\* Mutant of skipSubtree: the permission check is not negated.
skipSubtreeIfAccess(update, layer, selfToken) ==
  update.mayUseToken = layer.mayUseToken
  \/ TokenIdDerive(update.publicKey, update.tokenId) = selfToken

\* The comparisons of next() on the revealed account update.
canAccessThisToken(update, layer) == update.mayUseToken = layer.mayUseToken
isSelf(update, selfToken) ==
  TokenIdDerive(update.publicKey, update.tokenId) = selfToken
usesThisToken(update, selfToken) == update.tokenId = selfToken
skipSubtree(update, layer, selfToken) ==
  ~canAccessThisToken(update, layer) \/ isSelf(update, selfToken)

\* Mutant of pushCondition: the layer is pushed even when it is finished.
pushAlways(parentForest) == TRUE

\* Mutant of pushCondition: the layer is never pushed.
pushNever(parentForest) == FALSE

\* The condition of the pushIf of next(): the current layer has siblings left.
pushCondition(parentForest) == ~isAtEnd(parentForest)

\* Mutant of childLayerTag: the children's layer grants ParentsOwnToken.
childLayerTagParentsOwn == ParentsOwnToken

\* The tag of the layer of the children.
childLayerTag == InheritFromParent

\* CallForestIterator.next: the iterator after the step, what it returns, and
\* what the step did to the stack (whether pushIf pushed, whether pop met an
\* empty list, whether the popped layer was selected).
next(it) ==
  LET tree == cursorElement(it.currentLayer.forest)
      parentForest == cursorAfterNext(it.currentLayer.forest)
      pushed == pushIf(it.unfinishedParentLayers, pushCondition(parentForest),
                       [forest |-> parentForest,
                        mayUseToken |-> it.currentLayer.mayUseToken])
      update == tree.accountUpdate
      forest == jumpToEndIf(startIterating(tree.calls),
                            skipSubtree(update, it.currentLayer, it.selfToken))
      currentLayer == [forest |-> forest, mayUseToken |-> childLayerTag]
      currentIsFinished == isAtEnd(forest)
      nextParentLayer == popElement(pushed)
      parentLayersIfSteppingUp == popRest(pushed)
  IN [iter |->
        [currentLayer |->
           IF currentIsFinished THEN nextParentLayer ELSE currentLayer,
         unfinishedParentLayers |->
           IF currentIsFinished THEN parentLayersIfSteppingUp ELSE pushed,
         selfToken |-> it.selfToken],
      accountUpdate |-> update,
      usesThisToken |-> usesThisToken(update, it.selfToken),
      pushedLayer |-> pushCondition(parentForest),
      poppedEmptyList |-> pushed = <<>>,
      steppedUp |-> currentIsFinished]

\* Mutant of assertFinished: the assertion is dropped.
assertNothing(it) == TRUE

\* Mutant of assertFinished: the stack is looked at, not the current layer.
assertNoParentLayers(it) == it.unfinishedParentLayers = <<>>

\* CallForestIterator.assertFinished: whether the assertion passes.
assertFinished(it) == isAtEnd(it.currentLayer.forest)

\* ------------------------------------------------------------- inputs

\* An account update as the caller builds it (ids are given afterwards).
Update(publicKey, tokenId, mayUseToken, balanceChange, children) ==
  [id |-> 0, publicKey |-> publicKey, tokenId |-> tokenId,
   mayUseToken |-> mayUseToken, balanceChange |-> balanceChange,
   children |-> children]

\* All lists of account-update trees with exactly n records over the
\* childless records R.
RECURSIVE ForestsOfSize(_, _)
ForestsOfSize(R, n) ==
  IF n = 0 THEN {<<>>}
  ELSE UNION {
         { <<[r EXCEPT !.children = c]>> \o rest :
             r \in R, c \in ForestsOfSize(R, k - 1),
             rest \in ForestsOfSize(R, n - k) } : k \in 1..n }

RECURSIVE CountUpdates(_)
CountUpdates(updates) ==
  IF updates = <<>> THEN 0
  ELSE 1 + CountUpdates(Head(updates).children) + CountUpdates(Tail(updates))

\* Every account update is an object of its own: ids 1, 2, ... in pre-order.
RECURSIVE NumberFrom(_, _)
NumberFrom(updates, first) ==
  IF updates = <<>> THEN <<>>
  ELSE LET u == Head(updates) IN
       <<[u EXCEPT !.id = first,
                   !.children = NumberFrom(u.children, first + 1)]>>
       \o NumberFrom(Tail(updates), first + 1 + CountUpdates(u.children))

\* Records of the exhaustively enumerated forests: every tag a layer can
\* grant, and the three kinds of account: the contract's own account, an
\* account of the contract's token, an account of the default token.
TraversalRecords ==
  { Update(a[1], a[2], tag, 1, <<>>) :
      a \in { <<ZkappAddress, DefaultTokenId>>,
              <<UserAddress, ContractTokenId>>,
              <<UserAddress, DefaultTokenId>> },
      tag \in {ParentsOwnToken, InheritFromParent} }

TraversalForests == UNION { ForestsOfSize(TraversalRecords, n) : n \in 0..MaxNodes }

\* Two top-level records with any amounts, as transfer() builds them.
BalanceRecords ==
  { Update(UserAddress, tokenId, tag, amount, <<>>) :
      tokenId \in {ContractTokenId, DefaultTokenId},
      tag \in {ParentsOwnToken, No},
      amount \in (-MaxAmount)..MaxAmount }

BalanceForests == { <<r1, r2>> : r1 \in BalanceRecords, r2 \in BalanceRecords }

\* Forests around the limit MAX_ACCOUNT_UPDATES: n records side by side, n
\* records nested in one another, and n records of which the first one is
\* the contract's own account with one child.
Flat(n) ==
  [k \in 1..n |-> Update(UserAddress, ContractTokenId, ParentsOwnToken, 1, <<>>)]

RECURSIVE Chain(_, _)
Chain(n, tag) ==
  IF n = 0 THEN <<>>
  ELSE <<Update(UserAddress, ContractTokenId, tag, 1,
                Chain(n - 1, InheritFromParent))>>

OwnAccountFirst(n) ==
  <<Update(ZkappAddress, DefaultTokenId, ParentsOwnToken, 1,
           Chain(1, InheritFromParent))>> \o Flat(n - 2)

LimitForests ==
  UNION { { Flat(n), Chain(n, ParentsOwnToken), OwnAccountFirst(n) } :
            n \in {MAX_ACCOUNT_UPDATES, MAX_ACCOUNT_UPDATES + 1} }

\* Five records with siblings left at two depths: a root whose first child
\* r has a child and a sibling, followed by another root.
TwoLevelForests ==
  { <<Update(UserAddress, ContractTokenId, ParentsOwnToken, 1,
             <<[r EXCEPT !.children = Chain(1, InheritFromParent)]>>
             \o Chain(1, InheritFromParent))>>
    \o Flat(1) : r \in TraversalRecords }

InputUpdates ==
  { NumberFrom(f, 1) :
      f \in TraversalForests \cup BalanceForests \cup LimitForests
            \cup TwoLevelForests }

\* ------------------------------------------------------- state machine

VARIABLES
  updates,             \* the CallForest handed to checkZeroBalanceChange
  iter,                \* the CallForestIterator of forEachUpdate
  i,                   \* the loop variable of forEachUpdate
  returned,            \* what next() returned and callback received, in order
  totalBalanceChange,  \* the accumulator of checkZeroBalanceChange
  pc,                  \* "idle", "transfer", "loop", "assertFinished",
                       \* "adopt", "assertEquals", "done"
  result,              \* "pending", "ok", "IncompleteForest", "NonZeroBalanceChange"
  lastStep,            \* what the last next() did to the stack of layers
  callsType,           \* this.self.children.callsType
  adopted,             \* the ids of the account updates this.self adopted
  args,                \* transfer(from, to, amount): the arguments as passed
  from,                \* the locals from and to of transfer: the arguments,
  to,                  \*   then the account updates they are coerced to
  amount,
  approveBaseCalls,    \* the forests approveBase was called with
  hashInputs,          \* two lists of account updates, built independently
  hashed,              \* the CallForest made of each of them, once it is made
  staging,             \* a CallForestUnderConstruction
  ops,                 \* the operations made on it, in order
  finalized            \* what finalize returned, once it is called

callVars == <<updates, iter, i, returned, totalBalanceChange, pc, result,
              lastStep, callsType, adopted>>
transferVars == <<args, from, to, amount, approveBaseCalls>>

hashVars == <<hashInputs, hashed>>
constructionVars == <<staging, ops, finalized>>
otherVars == <<transferVars, hashVars, constructionVars>>

vars == <<callVars, otherVars>>

\* No transfer is under way: checkZeroBalanceChange was called directly.
NoTransfer ==
  /\ args = <<>>
  /\ from = <<>>
  /\ to = <<>>
  /\ amount = 0
  /\ approveBaseCalls = <<>>

\* No forest is being hashed for a comparison.
NoHashing ==
  /\ hashInputs = <<>>
  /\ hashed = <<>>

\* A hash that is not there: the hash field of a HashOrValue with
\* useHash: false.
NoHash == [domain |-> "none", input |-> <<>>]

\* CallForestUnderConstruction.empty()
empty == [useHash |-> FALSE, hash |-> NoHash, value |-> <<>>]

\* No forest is under construction.
NoConstruction ==
  /\ staging = empty
  /\ ops = <<>>
  /\ finalized = <<>>

\* No call of checkZeroBalanceChange is under way.
NoCall ==
  /\ updates = <<>>
  /\ iter = create(updates, ContractTokenId)
  /\ i = 0
  /\ returned = <<>>
  /\ totalBalanceChange = 0
  /\ pc = "idle"
  /\ result = "pending"
  /\ lastStep = [pushedLayer |-> FALSE, poppedEmptyList |-> FALSE,
                 steppedUp |-> FALSE]
  /\ callsType = [type |-> "None", value |-> emptyHash]
  /\ adopted = <<>>

\* The stack record of an iterator that made no step yet.
NoStep == [pushedLayer |-> FALSE, poppedEmptyList |-> FALSE, steppedUp |-> FALSE]

\* children.callsType of an account update nobody set: { type: 'None' }.
CallsTypeNone == [type |-> "None", value |-> emptyHash]

\* checkZeroBalanceChange(updates) up to the first iteration of the loop.
Init ==
  /\ updates \in { fromAccountUpdates(us) : us \in InputUpdates }
  /\ iter = create(updates, ContractTokenId)
  /\ i = 0
  /\ returned = <<>>
  /\ totalBalanceChange = 0
  /\ pc = "loop"
  /\ result = "pending"
  /\ lastStep = NoStep
  /\ callsType = CallsTypeNone
  /\ adopted = <<>>
  /\ NoTransfer
  /\ NoHashing
  /\ NoConstruction

\* Mutant of callback: the balance change is added whatever usesToken is.
callbackUnfiltered(total, accountUpdate, usesToken) ==
  Int64Add(total, accountUpdate.balanceChange)

\* The callback of checkZeroBalanceChange.
callback(total, accountUpdate, usesToken) ==
  Int64Add(total, IF usesToken THEN accountUpdate.balanceChange ELSE 0)

\* Mutant of loopCondition: one iteration less.
loopConditionOffByOne(k) == k < MAX_ACCOUNT_UPDATES - 1

\* The loop condition of forEachUpdate.
loopCondition(k) == k < MAX_ACCOUNT_UPDATES

\* One iteration of the loop of forEachUpdate: next(), then the callback.
LoopStep ==
  /\ pc = "loop"
  /\ loopCondition(i)
  /\ LET step == next(iter) IN
       /\ iter' = step.iter
       /\ returned' = Append(returned,
                             [accountUpdate |-> step.accountUpdate,
                              usesThisToken |-> step.usesThisToken])
       /\ totalBalanceChange' =
            callback(totalBalanceChange, step.accountUpdate, step.usesThisToken)
       /\ lastStep' = [pushedLayer |-> step.pushedLayer,
                       poppedEmptyList |-> step.poppedEmptyList,
                       steppedUp |-> step.steppedUp]
  /\ i' = i + 1
  /\ UNCHANGED <<updates, pc, result, callsType, adopted, otherVars>>

\* The loop ends.
LoopExit ==
  /\ pc = "loop"
  /\ ~loopCondition(i)
  /\ pc' = "assertFinished"
  /\ UNCHANGED <<updates, iter, i, returned, totalBalanceChange, result,
                 lastStep, callsType, adopted, otherVars>>

\* forest.assertFinished(...) of forEachUpdate: the call fails here, or
\* forEachUpdate goes on.
AssertFinished ==
  /\ pc = "assertFinished"
  /\ IF assertFinished(iter)
       THEN pc' = "adopt" /\ result' = result
       ELSE pc' = "done" /\ result' = "IncompleteForest"
  /\ UNCHANGED <<updates, iter, i, returned, totalBalanceChange,
                 lastStep, callsType, adopted, otherVars>>

\* The ids of the top-level account updates of a forest, in order.
topLevelIds(forest) ==
  [k \in 1..Len(forest) |-> forest[k].accountUpdate.id]

\* The end of forEachUpdate: callsType is set to the hash of the forest, the
\* top-level account updates are adopted, and forEachUpdate returns to
\* checkZeroBalanceChange.
AdoptUpdates ==
  /\ pc = "adopt"
  /\ callsType' = [type |-> "WitnessEquals", value |-> CallForestOf(updates).hash]
  /\ adopted' = adopted \o topLevelIds(updates)
  /\ pc' = "assertEquals"
  /\ UNCHANGED <<updates, iter, i, returned, totalBalanceChange, result,
                 lastStep, otherVars>>

\* totalBalanceChange.assertEquals(0) of checkZeroBalanceChange.
AssertEquals ==
  /\ pc = "assertEquals"
  /\ result' = IF totalBalanceChange = 0 THEN "ok" ELSE "NonZeroBalanceChange"
  /\ pc' = "done"
  /\ UNCHANGED <<updates, iter, i, returned, totalBalanceChange,
                 lastStep, callsType, adopted, otherVars>>

Next == LoopStep \/ LoopExit \/ AssertFinished \/ AdoptUpdates \/ AssertEquals

Spec == Init /\ [][Next]_vars

TypeOK ==
  /\ i \in 0..MAX_ACCOUNT_UPDATES
  /\ Len(returned) = i
  /\ pc \in {"idle", "transfer", "loop", "assertFinished", "adopt", "assertEquals", "done"}
  /\ result \in {"pending", "ok", "IncompleteForest", "NonZeroBalanceChange"}

\* ------------------------------------------------------------ transfer

\* Int64.from(amount).neg()
Int64Neg(x) == 0 - x

\* The arguments of transfer. A public key is passed by value. An account
\* update is an object: its id is its identity, and two arguments with the
\* same id are one and the same object. A supplied account update comes with
\* any token, any authorization, a balance change of its own and possibly a
\* child.
PublicKeyArguments ==
  { [kind |-> "PublicKey", publicKey |-> k] : k \in {UserAddress, ZkappAddress} }

SuppliedAccountUpdates(id) ==
  { [kind |-> "AccountUpdate", id |-> id, publicKey |-> UserAddress,
     tokenId |-> tokenId, mayUseToken |-> ParentsOwnToken,
     balanceChange |-> balance, authorization |-> authorization,
     children |-> children] :
      tokenId \in {ContractTokenId, DefaultTokenId},
      balance \in {0, MaxAmount},
      authorization \in {"None", "Signature", "Proof"},
      children \in { <<>>,
                     <<[id |-> id + 10, publicKey |-> UserAddress,
                        tokenId |-> ContractTokenId,
                        mayUseToken |-> InheritFromParent,
                        balanceChange |-> 1, children |-> <<>>]>> } }

\* The ids of the account updates transfer creates for from and for to.
FreshFromId == 3
FreshToId == 4

\* AccountUpdate.defaultAccountUpdate(address, tokenId): a new account update
\* of the account without balance change, authorization or children. The tag
\* it is created with is not fixed here.
defaultAccountUpdate(address, tokenId, tag, id) ==
  [kind |-> "AccountUpdate", id |-> id, publicKey |-> address,
   tokenId |-> tokenId, mayUseToken |-> tag, balanceChange |-> 0,
   authorization |-> "None", children |-> <<>>]

\* accountUpdate.requireSignature()
requireSignature(accountUpdate) ==
  [accountUpdate EXCEPT !.authorization = "Signature"]

\* Mutant of coerceFrom: the created account update is left unsigned.
coerceFromUnsigned(argument, tokenId, tag) ==
  IF argument.kind = "PublicKey"
    THEN defaultAccountUpdate(argument.publicKey, tokenId, tag, FreshFromId)
    ELSE argument

\* if (from instanceof PublicKey) { ... }
coerceFrom(argument, tokenId, tag) ==
  IF argument.kind = "PublicKey"
    THEN requireSignature(
           defaultAccountUpdate(argument.publicKey, tokenId, tag, FreshFromId))
    ELSE argument

\* if (to instanceof PublicKey) { ... }
coerceTo(argument, tokenId, tag) ==
  IF argument.kind = "PublicKey"
    THEN defaultAccountUpdate(argument.publicKey, tokenId, tag, FreshToId)
    ELSE argument

\* Mutant of transferUpdates: to before from.
transferUpdatesReversed(fromUpdate, toUpdate) == <<toUpdate, fromUpdate>>

\* The list [from, to] the forest of transfer is made of.
transferUpdates(fromUpdate, toUpdate) == <<fromUpdate, toUpdate>>

\* transfer(from, to, amount) is called on a contract whose approveBase is
\* checkZeroBalanceChange.
InitTransfer ==
  /\ from \in PublicKeyArguments \cup SuppliedAccountUpdates(1)
  /\ to \in PublicKeyArguments \cup SuppliedAccountUpdates(2)
              \cup (IF from.kind = "AccountUpdate" THEN {from} ELSE {})
  /\ amount \in 0..MaxAmount
  /\ args = [from |-> from, to |-> to]
  /\ approveBaseCalls = <<>>
  /\ updates = <<>>
  /\ iter = create(updates, ContractTokenId)
  /\ i = 0
  /\ returned = <<>>
  /\ totalBalanceChange = 0
  /\ pc = "transfer"
  /\ result = "pending"
  /\ lastStep = NoStep
  /\ callsType = CallsTypeNone
  /\ adopted = <<>>
  /\ NoHashing
  /\ NoConstruction

\* transfer up to the first iteration of the loop of forEachUpdate. The two
\* assignments to balanceChange are made one after the other on the objects
\* from and to refer to: when both refer to one object, the second assignment
\* overwrites the first. unlink takes an account update out of the children
\* of its parent and leaves the account update itself as it is.
Transfer ==
  /\ pc = "transfer"
  /\ \E tag \in {No, ParentsOwnToken} :
       LET tokenId == ContractTokenId
           fromUpdate == coerceFrom(from, tokenId, tag)
           toUpdate == coerceTo(to, tokenId, tag)
           sameObject == fromUpdate.id = toUpdate.id
           fromDebited == [fromUpdate EXCEPT !.balanceChange = Int64Neg(amount)]
           toCredited ==
             [(IF sameObject THEN fromDebited ELSE toUpdate)
                EXCEPT !.balanceChange = amount]
           fromFinal == IF sameObject THEN toCredited ELSE fromDebited
           forest == transferUpdates(fromFinal, toCredited)
       IN /\ from' = fromFinal
          /\ to' = toCredited
          /\ approveBaseCalls' = Append(approveBaseCalls, forest)
          /\ updates' = fromAccountUpdates(forest)
          /\ iter' = create(fromAccountUpdates(forest), ContractTokenId)
  /\ pc' = "loop"
  /\ UNCHANGED <<args, amount, i, returned, totalBalanceChange, result,
                 lastStep, callsType, adopted, hashVars, constructionVars>>

NextTransfer == Transfer \/ Next

SpecTransfer == InitTransfer /\ [][NextTransfer]_vars

\* ----------------------------------------- hashes of two constructions

\* The largest number of account updates in a list that is hashed for a
\* comparison.
MaxHashNodes == 3

\* Two account updates that differ in one field of the body only.
HashRecords ==
  { Update(UserAddress, ContractTokenId, ParentsOwnToken, change, <<>>) :
      change \in {1, 2} }

HashForests == UNION { ForestsOfSize(HashRecords, n) : n \in 0..MaxHashNodes }

\* Two lists of account updates, each made of objects of its own: no
\* account update of one list is an account update of the other.
InitHash ==
  /\ hashInputs \in { [left |-> NumberFrom(l, 1),
                        right |-> NumberFrom(r, MaxHashNodes + 1)] :
                         l \in HashForests, r \in HashForests }
  /\ hashed = [left |-> <<>>, right |-> <<>>]
  /\ NoCall
  /\ NoTransfer
  /\ NoConstruction

\* CallForest.fromAccountUpdates(updates) on the one list and on the other.
FromAccountUpdatesLeft ==
  /\ hashed.left = <<>>
  /\ hashed' = [hashed EXCEPT
                  !.left = <<CallForestOf(fromAccountUpdates(hashInputs.left))>>]
  /\ UNCHANGED <<hashInputs, callVars, transferVars, constructionVars>>

FromAccountUpdatesRight ==
  /\ hashed.right = <<>>
  /\ hashed' = [hashed EXCEPT
                  !.right = <<CallForestOf(fromAccountUpdates(hashInputs.right))>>]
  /\ UNCHANGED <<hashInputs, callVars, transferVars, constructionVars>>

NextHash == FromAccountUpdatesLeft \/ FromAccountUpdatesRight

SpecHash == InitHash /\ [][NextHash]_vars

\* ------------------------------------------ CallForestUnderConstruction

\* The largest number of operations made on one forest under construction.
MaxOps == 4

\* HashOrValue<AccountUpdate>: the account update alone, or with a hash that
\* is used for it.
ValueOnly(accountUpdate) ==
  [useHash |-> FALSE, hash |-> NoHash, value |-> accountUpdate]
WithHash(accountUpdate, hash) ==
  [useHash |-> TRUE, hash |-> hash, value |-> accountUpdate]

\* setHash(forest, hash)
setHash(forest, hash) == [forest EXCEPT !.useHash = TRUE, !.hash = hash]

\* Mutant of push: the hash that was set is given up.
pushResettingHash(forest, accountUpdate, calls) ==
  [forest EXCEPT !.useHash = FALSE, !.hash = NoHash,
                 !.value = Append(@, [accountUpdate |-> accountUpdate,
                                      calls |-> calls])]

\* push(forest, accountUpdate, calls); a call without calls passes empty.
push(forest, accountUpdate, calls) ==
  [forest EXCEPT !.value = Append(@, [accountUpdate |-> accountUpdate,
                                      calls |-> calls])]

\* Mutant of findIndex: the last node with the id.
RECURSIVE findIndexLast(_, _)
findIndexLast(nodes, id) ==
  IF nodes = <<>> THEN 0
  ELSE IF nodes[Len(nodes)].accountUpdate.value.id = id THEN Len(nodes)
  ELSE findIndexLast(SubSeq(nodes, 1, Len(nodes) - 1), id)

\* forest.value.findIndex((node) => node.accountUpdate.value.id === id):
\* the position of the first node with the id, counted from 1; 0 when there
\* is none (the -1 of findIndex).
RECURSIVE findIndexFrom(_, _, _)
findIndexFrom(nodes, id, k) ==
  IF k > Len(nodes) THEN 0
  ELSE IF nodes[k].accountUpdate.value.id = id THEN k
  ELSE findIndexFrom(nodes, id, k + 1)
findIndex(nodes, id) == findIndexFrom(nodes, id, 1)

\* forest.value.splice(index, 1)
splice(nodes, index) ==
  SubSeq(nodes, 1, index - 1) \o SubSeq(nodes, index + 1, Len(nodes))

\* remove(forest, accountUpdate)
remove(forest, accountUpdate) ==
  LET index == findIndex(forest.value, accountUpdate.id) IN
    IF index = 0 THEN forest
    ELSE [forest EXCEPT !.value = splice(@, index)]

\* Mutant of toCallTree: the calls of the node are left out.
toCallTreeWithoutCalls(node) ==
  [accountUpdate |->
     IF node.accountUpdate.useHash
       THEN [hash |-> node.accountUpdate.hash, value |-> node.accountUpdate.value]
       ELSE [hash |-> hashAccountUpdate(node.accountUpdate.value),
             value |-> node.accountUpdate.value],
   calls |-> CallForestFrom(<<>>)]

\* toCallTree and finalize, which call each other.
RECURSIVE finalize(_)
toCallTree(node) ==
  [accountUpdate |->
     IF node.accountUpdate.useHash
       THEN [hash |-> node.accountUpdate.hash, value |-> node.accountUpdate.value]
       ELSE [hash |-> hashAccountUpdate(node.accountUpdate.value),
             value |-> node.accountUpdate.value],
   calls |-> finalize(node.calls)]

finalize(forest) ==
  LET nodes == [k \in 1..Len(forest.value) |-> toCallTree(forest.value[k])] IN
    IF forest.useHash
      THEN [hash |-> forest.hash, data |-> CallForestFrom(nodes).data]
      ELSE CallForestFrom(nodes)

\* witnessHash(forest): the witness is computed as the block passed to
\* Provable.witness computes it.
witnessHash(forest) ==
  LET nodes == [k \in 1..Len(forest.value) |-> toCallTree(forest.value[k])] IN
    setHash(forest, withHashes(nodes))

\* The account updates the operations are called with. The third one is
\* never pushed.
StagedUpdate(id) ==
  [id |-> id, publicKey |-> UserAddress, tokenId |-> ContractTokenId,
   mayUseToken |-> ParentsOwnToken, balanceChange |-> id]
StagedUpdates == { StagedUpdate(id) : id \in {1, 2, 3} }

\* A hash a caller passes to setHash or holds for an account update.
WitnessedHash == hashWithPrefix("witnessed", <<>>)

\* A nested forest under construction with one node: the second account
\* update.
NestedForest == push(empty, ValueOnly(StagedUpdate(2)), empty)

\* The arguments push is called with: an account update or an account update
\* with its hash, and the forest of its calls.
PushArguments ==
  { <<ValueOnly(StagedUpdate(1)), empty>>,
    <<ValueOnly(StagedUpdate(1)), NestedForest>>,
    <<ValueOnly(StagedUpdate(2)), empty>>,
    <<WithHash(StagedUpdate(2), WitnessedHash), NestedForest>> }

\* An entry of the log of operations.
Op(name, accountUpdate, calls, hash) ==
  [op |-> name, accountUpdate |-> accountUpdate, calls |-> calls, hash |-> hash]

\* A forest is created with empty().
InitConstruction ==
  /\ NoConstruction
  /\ NoCall
  /\ NoTransfer
  /\ NoHashing

Construct(forest, op) ==
  /\ finalized = <<>>
  /\ Len(ops) < MaxOps
  /\ staging' = forest
  /\ ops' = Append(ops, op)
  /\ UNCHANGED <<finalized, callVars, transferVars, hashVars>>

Push ==
  \E a \in PushArguments :
    Construct(push(staging, a[1], a[2]), Op("push", a[1], a[2], NoHash))

Remove ==
  \E accountUpdate \in StagedUpdates :
    Construct(remove(staging, accountUpdate),
              Op("remove", ValueOnly(accountUpdate), empty, NoHash))

SetHash ==
  Construct(setHash(staging, WitnessedHash),
            Op("setHash", ValueOnly(DummyUpdate), empty, WitnessedHash))

WitnessHash ==
  Construct(witnessHash(staging),
            Op("witnessHash", ValueOnly(DummyUpdate), empty,
               witnessHash(staging).hash))

Finalize ==
  /\ finalized = <<>>
  /\ finalized' = <<finalize(staging)>>
  /\ ops' = Append(ops, Op("finalize", ValueOnly(DummyUpdate), empty, NoHash))
  /\ UNCHANGED <<staging, callVars, transferVars, hashVars>>

NextConstruction == Push \/ Remove \/ SetHash \/ WitnessHash \/ Finalize

SpecConstruction == InitConstruction /\ [][NextConstruction]_vars

\* ------------------------------------- next() as a straight-line program

\* The locals of next() before its first statement, with `this`.
StartOfNext(it) ==
  [this |-> it,
   accountUpdate |-> DummyUpdate,
   calls |-> <<>>,
   forest |-> <<>>,
   parentLayers |-> <<>>,
   nextParentLayer |-> DummyLayer]

\* What one operation on a list or one selection of next() does to the locals
\* and to `this`. The conditions (isAtEnd, skipSubtree) are values passed to
\* the operation; no operation is left out because of them.
Perform(operation, env) ==
  CASE operation = "next" ->
         [env EXCEPT
            !.accountUpdate = cursorElement(env.this.currentLayer.forest).accountUpdate,
            !.calls = cursorElement(env.this.currentLayer.forest).calls,
            !.this.currentLayer.forest = cursorAfterNext(@)]
    [] operation = "startIterating" ->
         [env EXCEPT !.forest = startIterating(env.calls)]
    [] operation = "pushIf" ->
         [env EXCEPT
            !.this.unfinishedParentLayers =
               pushIf(@, pushCondition(env.this.currentLayer.forest),
                      [forest |-> env.this.currentLayer.forest,
                       mayUseToken |-> env.this.currentLayer.mayUseToken])]
    [] operation = "jumpToEndIf" ->
         [env EXCEPT
            !.forest = jumpToEndIf(@, skipSubtree(env.accountUpdate,
                                                  env.this.currentLayer,
                                                  env.this.selfToken))]
    [] operation = "clone" ->
         [env EXCEPT !.parentLayers = env.this.unfinishedParentLayers]
    [] operation = "pop" ->
         [env EXCEPT
            !.nextParentLayer = popElement(env.this.unfinishedParentLayers),
            !.this.unfinishedParentLayers = popRest(@)]
    [] operation = "ifCurrentLayer" ->
         [env EXCEPT
            !.this.currentLayer =
               IF isAtEnd(env.forest) THEN env.nextParentLayer
               ELSE [forest |-> env.forest, mayUseToken |-> childLayerTag]]
    [] operation = "ifParentLayers" ->
         [env EXCEPT
            !.this.unfinishedParentLayers =
               IF isAtEnd(env.forest) THEN @ ELSE env.parentLayers]

\* The operations one after the other, none skipped, none repeated.
RECURSIVE Run(_, _)
Run(operations, env) ==
  IF operations = <<>> THEN env
  ELSE Run(Tail(operations), Perform(Head(operations), env))

\* Mutant of nextOperations: the stack is popped before it is cloned.
nextOperationsPopBeforeClone ==
  <<"next", "startIterating", "pushIf", "jumpToEndIf", "pop", "clone",
    "ifCurrentLayer", "ifParentLayers">>

\* The statements of next() in the order of the source: one cursor next, one
\* conditional push, one jumpToEndIf, one clone, one pop, two selections.
nextOperations ==
  <<"next", "startIterating", "pushIf", "jumpToEndIf", "clone", "pop",
    "ifCurrentLayer", "ifParentLayers">>

\* ------------------------------------------------- reference definitions

\* The recursive reference walk: emit each node left to right and, right
\* after a node, walk its children under InheritFromParent iff the node's tag
\* is the tag of its layer and the node is not the token's own account.
RECURSIVE Visit(_, _)
Visit(forest, layerTag) ==
  IF forest = <<>> THEN <<>>
  ELSE LET u == Head(forest).accountUpdate IN
       <<u>>
       \o (IF /\ u.mayUseToken = layerTag
              /\ TokenIdDerive(u.publicKey, u.tokenId) # ContractTokenId
           THEN Visit(Head(forest).calls, InheritFromParent)
           ELSE <<>>)
       \o Visit(Tail(forest), layerTag)

Walk == Visit(updates, ParentsOwnToken)

\* Every record of a forest in pre-order, pruning nothing.
RECURSIVE PreOrder(_)
PreOrder(forest) ==
  IF forest = <<>> THEN <<>>
  ELSE <<Head(forest).accountUpdate>> \o PreOrder(Head(forest).calls)
       \o PreOrder(Tail(forest))

\* For every record of a forest: its parent (0 at the top level), whether its
\* tag differs from the tag of its layer, whether it is the token's own
\* account, and whether some proper ancestor is one or the other.
RECURSIVE NodeFacts(_, _, _, _, _)
NodeFacts(forest, layerTag, parent, underMismatch, underSelf) ==
  UNION {
    LET u == forest[k].accountUpdate
        mismatch == u.mayUseToken # layerTag
        self == TokenIdDerive(u.publicKey, u.tokenId) = ContractTokenId
    IN {[id |-> u.id, update |-> u, parent |-> parent,
         mismatch |-> mismatch, self |-> self,
         underMismatch |-> underMismatch, underSelf |-> underSelf]}
       \cup NodeFacts(forest[k].calls, InheritFromParent, u.id,
                      underMismatch \/ mismatch, underSelf \/ self)
    : k \in 1..Len(forest) }

Facts == NodeFacts(updates, ParentsOwnToken, 0, FALSE, FALSE)

\* The account updates next() returned, and those of them that are real.
ReturnedUpdates == [k \in 1..Len(returned) |-> returned[k].accountUpdate]
IsReal(update) == update.id # 0
RealReturned == SelectSeq(ReturnedUpdates, IsReal)
ReturnedIds == { returned[k].accountUpdate.id : k \in 1..Len(returned) }
Occurrences(id) ==
  Cardinality({ k \in 1..Len(returned) : returned[k].accountUpdate.id = id })

Min(a, b) == IF a <= b THEN a ELSE b

\* ----------------------------------------------------------------- C1

\* C1: after any number of next() calls the real nodes returned so far are
\* the first nodes of the reference walk Visit(rootForest, ParentsOwnToken),
\* one more per call until the walk is exhausted: the same nodes, once each,
\* in the same order, and no other real node.
C1_IterationIsReferenceWalk ==
  /\ Len(RealReturned) = Min(Len(returned), Len(Walk))
  /\ RealReturned = SubSeq(Walk, 1, Len(RealReturned))

\* A finished call on a three-record forest of which the walk prunes one.
C1_Witness ==
  /\ pc = "done"
  /\ Len(PreOrder(updates)) = 3
  /\ Len(Walk) = 2
  /\ RealReturned = Walk

\* ----------------------------------------------------------------- C2

Unrestricted == \A f \in Facts : ~f.mismatch /\ ~f.self

RootWithChildOfToken ==
  /\ Len(updates) = 1
  /\ Len(updates[1].calls) = 1
  /\ updates[1].calls[1].calls = <<>>
  /\ updates[1].accountUpdate.tokenId = ContractTokenId
  /\ updates[1].calls[1].accountUpdate.tokenId = ContractTokenId
  /\ Unrestricted

\* C2: on a forest of N <= MAX_ACCOUNT_UPDATES records without permission
\* restrictions the first N calls return the records in pre-order, every
\* later call returns the filler with usesThisToken = false, and
\* assertFinished succeeds; for a root with one child, both of the
\* contract's token, both are returned with usesThisToken = true.
C2_UnrestrictedForestIsExhausted ==
  LET all == PreOrder(updates)
      N == Len(all)
  IN (Unrestricted /\ N <= MAX_ACCOUNT_UPDATES) =>
       /\ \A k \in 1..Len(returned) :
            IF k <= N
            THEN returned[k].accountUpdate = all[k]
            ELSE /\ returned[k].accountUpdate = DummyUpdate
                 /\ ~returned[k].usesThisToken
       /\ (Len(returned) >= N => assertFinished(iter))
       /\ result # "IncompleteForest"
       /\ RootWithChildOfToken =>
            /\ (Len(returned) >= 1 =>
                  /\ returned[1].accountUpdate = updates[1].accountUpdate
                  /\ returned[1].usesThisToken)
            /\ (Len(returned) >= 2 =>
                  /\ returned[2].accountUpdate = updates[1].calls[1].accountUpdate
                  /\ returned[2].usesThisToken)

\* The call has passed assertFinished on an unrestricted nested forest of
\* three records.
C2_Witness ==
  /\ pc = "assertEquals"
  /\ Unrestricted
  /\ Len(PreOrder(updates)) = 3
  /\ Len(updates) = 2
  /\ Len(updates[1].calls) = 1
  /\ returned[4].accountUpdate = DummyUpdate

\* ----------------------------------------------------------------- C3

UsesToken(f) == f.update.tokenId = ContractTokenId

C4_MismatchedSubtreePruned ==
  \A k \in 1..Len(returned) :
    \A f \in Facts :
      f.underMismatch =>
        /\ returned[k].accountUpdate.id # f.id
        /\ ~(returned[k].usesThisToken /\ returned[k].accountUpdate = f.update)

\* A finished iteration that returned a node C with a mismatching tag whose
\* child carries the contract's token id.
C4_Witness ==
  /\ assertFinished(iter)
  /\ Len(returned) > 0
  /\ \E f \in Facts :
       /\ UsesToken(f)
       /\ f.parent \in ReturnedIds
       /\ \E c \in Facts : c.id = f.parent /\ c.mismatch /\ ~c.self

\* ----------------------------------------------------------------- C5

\* C5: whatever its tag, a node whose derived token id is selfToken is
\* returned with usesThisToken = false, and no record below it is returned.
C5_SelfSubtreePruned ==
  \A k \in 1..Len(returned) :
    \A f \in Facts :
      /\ f.underSelf => returned[k].accountUpdate.id # f.id
      /\ (f.self /\ returned[k].accountUpdate.id = f.id) =>
           ~returned[k].usesThisToken

\* A finished iteration that returned the contract's own account, tagged as
\* its layer demands, with a child of the contract's token.
C5_Witness ==
  /\ assertFinished(iter)
  /\ \E f \in Facts :
       /\ UsesToken(f)
       /\ f.parent \in ReturnedIds
       /\ \E c \in Facts : c.id = f.parent /\ c.self /\ ~c.mismatch

\* ----------------------------------------------------------------- C6

\* C6: every next() of forEachUpdate is followed by one callback, the loop is
\* left only after MAX_ACCOUNT_UPDATES of them whatever the forest, and
\* assertFinished is evaluated only then.
C6_ExactlyMaxIterations ==
  /\ Len(returned) = i
  /\ i <= MAX_ACCOUNT_UPDATES
  /\ (pc # "loop" => i = MAX_ACCOUNT_UPDATES)
  /\ (result # "pending" => Len(returned) = MAX_ACCOUNT_UPDATES)

\* assertFinished is about to be evaluated on the empty forest.
C6_Witness ==
  /\ pc = "assertFinished"
  /\ updates = <<>>
  /\ Len(returned) = MAX_ACCOUNT_UPDATES

\* ----------------------------------------------------------------- C7

\* C7 as stated: on a forest of MAX_ACCOUNT_UPDATES + 1 records the call
\* fails at assertFinished.
C7_MoreRecordsThanMaxFails ==
  (pc = "done" /\ Len(PreOrder(updates)) = MAX_ACCOUNT_UPDATES + 1) =>
    result = "IncompleteForest"

\* C7 amended: on a forest of which the permission-gated walk visits more
\* than MAX_ACCOUNT_UPDATES records the call fails at assertFinished.
C7_MoreVisitedThanMaxFails ==
  (pc = "done" /\ Len(Walk) > MAX_ACCOUNT_UPDATES) =>
    result = "IncompleteForest"

\* The call failed on MAX_ACCOUNT_UPDATES + 1 records nested in one another.
C7_Witness ==
  /\ pc = "done"
  /\ result = "IncompleteForest"
  /\ Len(Walk) = MAX_ACCOUNT_UPDATES + 1
  /\ Len(updates) = 1

\* ----------------------------------------------------------------- C8

\* C8: after k calls of next(), assertFinished passes iff k is at least the
\* number of nodes the permission-gated walk visits; the call fails with
\* IncompleteForest only when the loop made fewer calls than that.
C8_FinishedIffWalkExhausted ==
  /\ assertFinished(iter) <=> Len(returned) >= Len(Walk)
  /\ (pc = "done" =>
        (result = "IncompleteForest" <=> Len(returned) < Len(Walk)))

\* The call that returns the last of three visited nodes has just been made.
C8_Witness ==
  /\ Len(Walk) = 3
  /\ Len(returned) = 3
  /\ assertFinished(iter)
  /\ Len(PreOrder(updates)) = 3
  /\ Len(updates) = 1

\* ----------------------------------------------------------------- C9

RECURSIVE TokenBalanceSum(_)
TokenBalanceSum(entries) ==
  IF entries = <<>> THEN 0
  ELSE (IF Head(entries).usesThisToken
        THEN Head(entries).accountUpdate.balanceChange ELSE 0)
       + TokenBalanceSum(Tail(entries))

\* C9: the accumulator is the sum of balanceChange over the returned records
\* with usesThisToken = true, and a call whose traversal finished succeeds
\* iff that sum is zero and fails with NonZeroBalanceChange otherwise.
C9_SumOfTokenBalanceChanges ==
  /\ totalBalanceChange = TokenBalanceSum(returned)
  /\ (pc = "done" /\ result # "IncompleteForest") =>
       /\ (result = "ok" <=> TokenBalanceSum(returned) = 0)
       /\ (result = "NonZeroBalanceChange" <=> TokenBalanceSum(returned) # 0)

\* A failed call on two records of which only the second is of the token;
\* the first one's amount is left out of the sum.
C9_Witness ==
  /\ pc = "done"
  /\ result = "NonZeroBalanceChange"
  /\ Len(returned) >= 2
  /\ ~returned[1].usesThisToken
  /\ returned[1].accountUpdate.balanceChange = -1
  /\ returned[2].usesThisToken
  /\ returned[2].accountUpdate.balanceChange = 1
  /\ totalBalanceChange = 1

\* ---------------------------------------------------------------- C10

TwoRecordsOfToken ==
  /\ Len(updates) = 2
  /\ \A k \in 1..2 :
       /\ updates[k].calls = <<>>
       /\ updates[k].accountUpdate.tokenId = ContractTokenId

\* C10: on a forest of two records of the contract's token the call succeeds
\* when the two balance changes are +X and -X, and fails with
\* NonZeroBalanceChange when their sum is not zero.
C10_ZeroBalanceRoundTrip ==
  (pc = "done" /\ TwoRecordsOfToken) =>
    LET sum == updates[1].accountUpdate.balanceChange
               + updates[2].accountUpdate.balanceChange
    IN /\ (sum = 0 => result = "ok")
       /\ (sum # 0 => result = "NonZeroBalanceChange")

\* A successful call on the amounts -X and +X with X > 0.
C10_Witness ==
  /\ pc = "done"
  /\ TwoRecordsOfToken
  /\ updates[1].accountUpdate.balanceChange < 0
  /\ updates[2].accountUpdate.balanceChange
       = 0 - updates[1].accountUpdate.balanceChange
  /\ result = "ok"

\* ---------------------------------------------------------------- C14

C15_FailedForEachUpdateHasNoEffect ==
  /\ (pc \in {"transfer", "loop", "assertFinished", "adopt"}
        \/ result = "IncompleteForest") =>
       /\ callsType = CallsTypeNone
       /\ adopted = <<>>
  /\ (pc \in {"assertEquals", "done"} /\ result # "IncompleteForest") =>
       /\ isAtEnd(iter.currentLayer.forest)
       /\ Len(returned) = MAX_ACCOUNT_UPDATES
       /\ callsType = [type |-> "WitnessEquals",
                       value |-> CallForestOf(updates).hash]
       /\ adopted = topLevelIds(updates)

\* The call failed at assertFinished on a forest with top-level records.
C15_Witness ==
  /\ pc = "done"
  /\ result = "IncompleteForest"
  /\ Len(updates) = MAX_ACCOUNT_UPDATES + 1
  /\ adopted = <<>>

\* ---------------------------------------------------------------- C18

\* C18: the current layer is at its end only when no parent layer is left and
\* every node of the permission-gated walk has been returned; so a filler is
\* returned only after the last of those nodes, never before one of them.
C18_CurrentLayerFinishedOnlyAtEnd ==
  /\ isAtEnd(iter.currentLayer.forest) =>
       /\ iter.unfinishedParentLayers = <<>>
       /\ RealReturned = Walk
  /\ \A k \in 1..Len(returned) :
       ~IsReal(returned[k].accountUpdate) =>
         /\ k > Len(Walk)
         /\ \A j \in k..Len(returned) : ~IsReal(returned[j].accountUpdate)

\* A step on a forest with nodes left stepped up to an unfinished parent
\* layer.
C18_Witness ==
  /\ pc = "loop"
  /\ lastStep.steppedUp
  /\ ~lastStep.poppedEmptyList
  /\ ~isAtEnd(iter.currentLayer.forest)
  /\ Len(returned) < Len(Walk)

\* ---------------------------------------------------------------- C19

Terminal(it) ==
  isAtEnd(it.currentLayer.forest) /\ it.unfinishedParentLayers = <<>>

\* C19: a next() in the terminal state (current layer at end, stack empty)
\* returns the filler with usesThisToken = false, pushes nothing and leaves
\* the iterator in the terminal state.
C19_TerminalStateIsAbsorbing ==
  [][ (Terminal(iter) /\ i' = i + 1) =>
        /\ returned' = Append(returned, [accountUpdate |-> DummyUpdate,
                                         usesThisToken |-> FALSE])
        /\ ~lastStep'.pushedLayer
        /\ Terminal(iter')
        /\ result' = result ]_vars

\* Two calls of next() were made after the last node of a non-empty walk.
C19_Witness ==
  /\ Len(Walk) > 0
  /\ Len(returned) = Len(Walk) + 2
  /\ Terminal(iter)

\* ---------------------------------------------------------------- C20

\* The tag of the layer a record sits in.
LayerTagOf(id) ==
  LET f == CHOOSE f \in Facts : f.id = id
  IN IF f.parent = 0 THEN ParentsOwnToken ELSE InheritFromParent

LayerInPlace(layer) ==
  /\ ~isAtEnd(layer.forest)
  /\ layer.mayUseToken = LayerTagOf(Head(layer.forest).accountUpdate.id)

\* C20: a next() pushes a layer iff the current layer has siblings left
\* after the node it consumes, and the layer pushed is the rest of the
\* current layer with the current layer's tag; every stacked layer is
\* unfinished and carries the tag of its depth, as does an unfinished current
\* layer.
C20_ParentStackDiscipline ==
  /\ [](/\ \A k \in 1..Len(iter.unfinishedParentLayers) :
             LayerInPlace(iter.unfinishedParentLayers[k])
        /\ ~isAtEnd(iter.currentLayer.forest) => LayerInPlace(iter.currentLayer))
  /\ [][ i' = i + 1 =>
           LET rest == [forest |-> cursorAfterNext(iter.currentLayer.forest),
                        mayUseToken |-> iter.currentLayer.mayUseToken]
               stack == iter.unfinishedParentLayers
           IN /\ lastStep'.pushedLayer <=> Len(iter.currentLayer.forest) > 1
              /\ iter'.unfinishedParentLayers =
                   IF lastStep'.pushedLayer /\ ~lastStep'.steppedUp
                   THEN Append(stack, rest)
                   ELSE IF ~lastStep'.pushedLayer /\ lastStep'.steppedUp
                   THEN popRest(stack)
                   ELSE stack
              /\ (lastStep'.pushedLayer /\ lastStep'.steppedUp) =>
                   iter'.currentLayer = rest ]_vars

\* Two layers are stacked, the root layer and below it a layer of children.
C20_Witness ==
  /\ Len(iter.unfinishedParentLayers) = 2
  /\ iter.unfinishedParentLayers[1].mayUseToken = ParentsOwnToken
  /\ iter.unfinishedParentLayers[2].mayUseToken = InheritFromParent
  /\ lastStep.pushedLayer

\* -------------------------------------------------------------- C11

\* The forest of the one approveBase call of a finished transfer call.
TransferCalled == pc # "transfer"
TransferForest == approveBaseCalls[1]
SameObjectPassedTwice ==
  args.from.kind = "AccountUpdate" /\ args.to.kind = "AccountUpdate"
    /\ args.from.id = args.to.id

\* What identifies the record an argument was coerced to: the object passed,
\* or a new account update of the key passed.
IsRecordOf(update, argument, freshId) ==
  IF argument.kind = "PublicKey"
    THEN update.id = freshId /\ update.publicKey = argument.publicKey
    ELSE update.id = argument.id /\ update.publicKey = argument.publicKey

SuppliedAuthorization(argument) ==
  IF argument.kind = "PublicKey" THEN "None" ELSE argument.authorization

\* C12 as stated: in every call of transfer the from record of the forest
\* requires a signature, and the to record has the authorization it came with,
\* whether the arguments are public keys or account updates.
C12_DebitAlwaysRequiresSignature ==
  TransferCalled =>
    /\ TransferForest[1].authorization = "Signature"
    /\ TransferForest[2].authorization = SuppliedAuthorization(args.to)

\* C12, amended: the from record requires a signature when from is passed as a
\* public key; an account update passed as from keeps the authorization it
\* came with, and so does the to record in every case.
C12_DebitFromPublicKeyRequiresSignature ==
  TransferCalled =>
    /\ TransferForest[1].authorization =
         IF args.from.kind = "PublicKey" THEN "Signature"
         ELSE args.from.authorization
    /\ TransferForest[2].authorization = SuppliedAuthorization(args.to)

\* A transfer from a public key to a supplied account update that requires a
\* signature itself was made.
C12_Witness ==
  /\ TransferCalled
  /\ args.from.kind = "PublicKey"
  /\ args.to.kind = "AccountUpdate" /\ args.to.authorization = "Proof"
  /\ TransferForest[1].authorization = "Signature"
  /\ TransferForest[2].authorization = "Proof"

\* -------------------------------------------------------------- C13

\* The record tree of a list of account updates: what every account update
\* holds and its children in order, without the identity of the objects.
RECURSIVE Contents(_)
Contents(updateList) ==
  [k \in 1..Len(updateList) |->
     [publicKey |-> updateList[k].publicKey,
      tokenId |-> updateList[k].tokenId,
      mayUseToken |-> updateList[k].mayUseToken,
      balanceChange |-> updateList[k].balanceChange,
      children |-> Contents(updateList[k].children)]]

BothHashed == hashed.left # <<>> /\ hashed.right # <<>>

\* C13: two independent constructions yield the same hash if the two record
\* trees are identical (same records, same order of children at every depth),
\* and different hashes if they differ in the content of a record, in the
\* order of siblings or in the nesting.
C13_HashIdentifiesRecordTree ==
  BothHashed =>
    (hashed.left[1].hash = hashed.right[1].hash
       <=> Contents(hashInputs.left) = Contents(hashInputs.right))

\* Two lists of different objects with the same record tree, one account
\* update with a child among them, got the same hash.
C13_Witness ==
  /\ BothHashed
  /\ hashInputs.left # hashInputs.right
  /\ Contents(hashInputs.left) = Contents(hashInputs.right)
  /\ CountUpdates(hashInputs.left) = MaxHashNodes
  /\ Len(hashInputs.left) = 2
  /\ hashed.left[1].hash = hashed.right[1].hash

\* -------------------------------------------------------------- C16

\* C16: remove changes nothing when no top-level node has the id of the
\* account update; otherwise exactly the first top-level node with that id
\* goes, and every other node stays as it is, calls included, in the same
\* order. A node with the id inside the calls of another node is neither
\* found nor removed.
C16_RemoveTakesFirstTopLevelNode ==
  [][(ops' # ops /\ ops'[Len(ops')].op = "remove") =>
       LET id == ops'[Len(ops')].accountUpdate.value.id
           old == staging.value
           new == staging'.value
           HasId(k) == old[k].accountUpdate.value.id = id
       IN IF \A k \in 1..Len(old) : ~HasId(k)
            THEN new = old
            ELSE \E k \in 1..Len(old) :
                   /\ HasId(k)
                   /\ \A j \in 1..(k - 1) : ~HasId(j)
                   /\ Len(new) = Len(old) - 1
                   /\ \A j \in 1..Len(new) :
                        new[j] = IF j < k THEN old[j] ELSE old[j + 1]
    ]_vars

\* The first account update was pushed with calls that hold the second one,
\* then pushed again without calls, then removed: the node pushed second is
\* what is left.
C16_Witness ==
  /\ Len(ops) = 3
  /\ ops[1] = Op("push", ValueOnly(StagedUpdate(1)), NestedForest, NoHash)
  /\ ops[2] = Op("push", ValueOnly(StagedUpdate(1)), empty, NoHash)
  /\ ops[3] = Op("remove", ValueOnly(StagedUpdate(1)), empty, NoHash)
  /\ staging.value = <<[accountUpdate |-> ValueOnly(StagedUpdate(1)),
                        calls |-> empty]>>

\* -------------------------------------------------------------- C17

\* A forest under construction none of whose parts uses a given hash.
RECURSIVE PlainForest(_)
PlainForest(forest) ==
  /\ ~forest.useHash
  /\ \A k \in 1..Len(forest.value) :
       /\ ~forest.value[k].accountUpdate.useHash
       /\ PlainForest(forest.value[k].calls)

\* The account updates of a forest under construction with the account
\* updates of the calls as their children.
RECURSIVE TreeOf(_)
TreeOf(forest) ==
  [k \in 1..Len(forest.value) |->
     LET update == forest.value[k].accountUpdate.value IN
       [id |-> update.id, publicKey |-> update.publicKey,
        tokenId |-> update.tokenId, mayUseToken |-> update.mayUseToken,
        balanceChange |-> update.balanceChange,
        children |-> TreeOf(forest.value[k].calls)]]

\* The record tree of a log that holds nothing but push operations of plain
\* account updates with plain calls.
OnlyPlainPushes(log) ==
  \A k \in 1..Len(log) :
    /\ log[k].op = "push"
    /\ ~log[k].accountUpdate.useHash
    /\ PlainForest(log[k].calls)
PushedTree(log) ==
  [k \in 1..Len(log) |->
     LET update == log[k].accountUpdate.value IN
       [id |-> update.id, publicKey |-> update.publicKey,
        tokenId |-> update.tokenId, mayUseToken |-> update.mayUseToken,
        balanceChange |-> update.balanceChange,
        children |-> TreeOf(log[k].calls)]]

\* The log without its last n operations.
ButLast(log, n) == SubSeq(log, 1, Len(log) - n)

\* C17: after nothing but empty() and pushes of plain account updates with
\* plain calls, finalize returns CallForest.fromAccountUpdates of the record
\* tree pushed, in the order pushed; and witnessHash right before finalize
\* gives a CallForest with the same hash and the same data.
C17_FinalizeIsFromAccountUpdates ==
  finalized # <<>> =>
    /\ OnlyPlainPushes(ButLast(ops, 1)) =>
         finalized[1] = CallForestOf(fromAccountUpdates(PushedTree(ButLast(ops, 1))))
    /\ (Len(ops) >= 2 /\ ops[Len(ops) - 1].op = "witnessHash"
          /\ OnlyPlainPushes(ButLast(ops, 2))) =>
         /\ staging.useHash
         /\ finalized[1] = CallForestOf(fromAccountUpdates(PushedTree(ButLast(ops, 2))))

\* Two account updates were pushed, the first with calls, the hash was
\* witnessed, and finalize returned the forest with that hash.
C17_Witness ==
  /\ finalized # <<>>
  /\ Len(ops) = 4
  /\ ops[1] = Op("push", ValueOnly(StagedUpdate(1)), NestedForest, NoHash)
  /\ ops[2] = Op("push", ValueOnly(StagedUpdate(2)), empty, NoHash)
  /\ ops[3].op = "witnessHash"
  /\ staging.useHash
  /\ finalized[1].hash = staging.hash
  /\ Len(finalized[1].data) = 2

\* -------------------------------------------------------------- C21

\* The locals after the operations of next() were run from the iterator as it
\* is now.
AfterNextOperations == Run(nextOperations, StartOfNext(iter))

RECURSIVE BalanceSumByTokenId(_)
BalanceSumByTokenId(entries) ==
  IF entries = <<>> THEN 0
  ELSE (IF Head(entries).accountUpdate.tokenId = ContractTokenId
          THEN Head(entries).accountUpdate.balanceChange ELSE 0)
       + BalanceSumByTokenId(Tail(entries))

\* C22: usesThisToken of a returned account update is tokenId = selfToken and
\* nothing else: an account update whose tag differs from the tag of its
\* layer, or which is the token's own account, is reported by its token id
\* like any other, and checkZeroBalanceChange counts its balance change.
C22_UsesThisTokenIsTokenIdOnly ==
  /\ \A k \in 1..Len(returned) :
       /\ returned[k].usesThisToken
            <=> returned[k].accountUpdate.tokenId = ContractTokenId
       /\ \A f \in Facts :
            (f.id = returned[k].accountUpdate.id /\ (f.mismatch \/ f.self)) =>
              (returned[k].usesThisToken <=> f.update.tokenId = ContractTokenId)
  /\ totalBalanceChange = BalanceSumByTokenId(returned)

\* The one account update of the forest has the contract's token id and a tag
\* that is not the tag of the top layer: it was reported with usesThisToken,
\* its balance change was counted, and the call failed on the sum.
C22_Witness ==
  /\ pc = "done"
  /\ result = "NonZeroBalanceChange"
  /\ Len(updates) = 1 /\ updates[1].calls = <<>>
  /\ returned[1].usesThisToken
  /\ returned[1].accountUpdate.mayUseToken # ParentsOwnToken
  /\ \E f \in Facts : f.id = returned[1].accountUpdate.id /\ f.mismatch
  /\ totalBalanceChange = returned[1].accountUpdate.balanceChange

\* -------------------------------------------------------------- C23

\* The hash of the last setHash or witnessHash of a log; NoHash without one.
RECURSIVE LastHashSet(_)
LastHashSet(log) ==
  IF log = <<>> THEN NoHash
  ELSE IF log[Len(log)].op \in {"setHash", "witnessHash"} THEN log[Len(log)].hash
  ELSE LastHashSet(SubSeq(log, 1, Len(log) - 1))

HashWasSet(log) ==
  \E k \in 1..Len(log) : log[k].op \in {"setHash", "witnessHash"}

\* C23: push and remove leave useHash and hash of the forest as they are; so
\* once a hash was set, the forest keeps the hash set last through every
\* later push and remove, and finalize returns that hash with data made of
\* the nodes the forest holds at that time.
C23_PushAndRemoveKeepHash ==
  /\ [](/\ staging.useHash <=> HashWasSet(ops)
        /\ staging.hash = LastHashSet(ops)
        /\ finalized # <<>> =>
             /\ HashWasSet(ops) => finalized[1].hash = LastHashSet(ops)
             /\ Len(finalized[1].data) = Len(staging.value)
             /\ \A k \in 1..Len(staging.value) :
                  /\ finalized[1].data[k].accountUpdate.value
                       = staging.value[k].accountUpdate.value
                  /\ finalized[1].data[k].calls
                       = finalize(staging.value[k].calls))
  /\ [][(ops' # ops /\ ops'[Len(ops')].op \in {"push", "remove"}) =>
          /\ staging'.useHash = staging.useHash
          /\ staging'.hash = staging.hash]_vars

\* The hash of a forest of one node was witnessed, a second node was pushed,
\* and finalize returned the witnessed hash with the two nodes: the hash is
\* not the hash of the data.
C23_Witness ==
  /\ finalized # <<>>
  /\ Len(ops) = 4
  /\ ops[1].op = "push"
  /\ ops[2].op = "witnessHash"
  /\ ops[3].op = "push"
  /\ finalized[1].hash = ops[2].hash
  /\ Len(finalized[1].data) = 2
  /\ finalized[1].hash # withHashes(finalized[1].data)

\* -------------------------------------------------------------- C24

\* C24: the sum is asserted only after forEachUpdate returned. A call on a
\* forest whose walk has more than MAX_ACCOUNT_UPDATES account updates fails
\* with IncompleteForest whatever the sum is, and NonZeroBalanceChange is
\* reported only when the traversal finished.
C24_IncompleteForestBeforeNonZero ==
  /\ pc = "assertEquals" =>
       /\ i = MAX_ACCOUNT_UPDATES
       /\ assertFinished(iter)
       /\ callsType.type = "WitnessEquals"
  /\ result = "NonZeroBalanceChange" =>
       /\ assertFinished(iter)
       /\ Len(Walk) <= MAX_ACCOUNT_UPDATES
       /\ totalBalanceChange # 0
  /\ (pc = "done" /\ Len(Walk) > MAX_ACCOUNT_UPDATES) =>
       result = "IncompleteForest"
  /\ result = "IncompleteForest" => ~assertFinished(iter)

\* A call on a forest of more account updates than the maximum failed with
\* IncompleteForest although the sum of the balance changes is not zero.
C24_Witness ==
  /\ pc = "done"
  /\ result = "IncompleteForest"
  /\ Len(Walk) > MAX_ACCOUNT_UPDATES
  /\ totalBalanceChange = MAX_ACCOUNT_UPDATES

====
